---- MODULE Spec2Model ----
(***************************************************************************)
(* winkeysafe: custody of one master key on a Windows machine.             *)
(*                                                                         *)
(* The repository holds four versions of the "materialize" operation:     *)
(*   AccessKey       winkeysafe.go      () (bool, string), keeps secureKey *)
(*   AccessKeyBytes  unnamed/part_004   AccessKey() ([]byte, error)        *)
(*   New             unnamed/part_003   word-list variant, keeps secureKey *)
(*   Get             unnamed/part_002   returns the key bytes              *)
(* and the accessors GetKey (winkeysafe.go), GetKey/DestroyKey (part_003). *)
(* A behaviour runs one version (impl) against one pair of key files.      *)
(*                                                                         *)
(* Bytes and strings are sequences of one-character strings.  A DPAPI blob *)
(* is the sequence <<"DPAPI", machine>> \o data \o <<"MAC">>.              *)
(***************************************************************************)
EXTENDS Integers, Sequences, FiniteSets, TLC

VARIABLES
    impl,           \* which version of the package the process runs
    wordsList,      \* part_003: the package-level dictionary
    cipherFile,     \* content of the cipher file (key.dat), or NoFile
    plainTextFile,  \* content of the plaintext file (key.txt), or NoFile
    buffers,        \* memguard buffers allocated by this process
    secureKey,      \* index into buffers, 0 = nil
    crashed,        \* the process died on a runtime panic / log.Fatalf
    last,           \* record of the last call: inputs, pre-state, results
    hist,           \* the last generated key and the calls made since
    held,           \* what the caller holds from its last successful GetKey
    origin,         \* "empty": the disk was empty at the start and no file
                    \* has been removed from outside since
    race            \* the two processes of a concurrent first run

vars == <<impl, wordsList, cipherFile, plainTextFile, buffers, secureKey,
          crashed, last, hist, held, origin, race>>

-----------------------------------------------------------------------------
(* Bounds of the model *)

\* secureRandomInt is examined for every max in 1..MaxMax
MaxMax == 100
\* random streams the generators may draw (seeds 0..MaxSeed)
MaxSeed == 1
\* memguard buffers one process may allocate before the model stops loading
MaxBuffers == 2
\* a failed WriteFile leaves nothing (-1) or a prefix of 0..MaxCut bytes
MaxCut == 1

-----------------------------------------------------------------------------
(* Program constants *)

\* winkeysafe.go:159, part_002:53,73 : the key is 32 characters
KeyLength == 32
\* part_003:83,247 : the key is 24 words
WordCount == 24
\* part_003:184 : formatWords breaks the line every 6 words
WordsPerLine == 6
\* one random byte: rand.Read of a 1-byte slice (winkeysafe.go:180-186)
ByteRange == 256

\* winkeysafe.go:155, part_004:131 ("0x60" stands for the backquote character)
charPool ==
    <<"a", "b", "c", "d", "e", "f", "g", "h", "i", "j", "k", "l", "m", "n",
    "o", "p", "q", "r", "s", "t", "u", "v", "w", "x", "y", "z", "A", "B",
    "C", "D", "E", "F", "G", "H", "I", "J", "K", "L", "M", "N", "O", "P",
    "Q", "R", "S", "T", "U", "V", "W", "X", "Y", "Z", "0", "1", "2", "3",
    "4", "5", "6", "7", "8", "9", "!", "@", "#", "$", "%", "^", "&", "*",
    "(", ")", "-", "_", "=", "+", "[", "]", "{", "}", "|", ";", ":", "'",
    ",", ".", "<", ">", "?", "/", "0x60", "~">>

\* part_002:149
characters ==
    <<"a", "b", "c", "d", "e", "f", "g", "h", "i", "j", "k", "l", "m", "n",
    "o", "p", "q", "r", "s", "t", "u", "v", "w", "x", "y", "z", "A", "B",
    "C", "D", "E", "F", "G", "H", "I", "J", "K", "L", "M", "N", "O", "P",
    "Q", "R", "S", "T", "U", "V", "W", "X", "Y", "Z", "0", "1", "2", "3",
    "4", "5", "6", "7", "8", "9", "!", "@", "#", "$", "%", "^", "&", "*",
    "(", ")", "{", "[", "]", "}", ";", ":", ".", ",", "/", "?", "0x60", "~">>

\* part_001:11-16 : the dictionary the test of the package installs
testWordsList == <<
    <<"a", "l", "p", "h", "a">>,
    <<"b", "r", "a", "v", "o">>,
    <<"c", "h", "a", "r", "l", "i", "e">>,
    <<"d", "e", "l", "t", "a">>,
    <<"e", "c", "h", "o">>,
    <<"f", "o", "x", "t", "r", "o", "t">>,
    <<"g", "o", "l", "f">>,
    <<"h", "o", "t", "e", "l">>,
    <<"i", "n", "d", "i", "a">>,
    <<"j", "u", "l", "i", "e", "t">>,
    <<"k", "i", "l", "o">>,
    <<"l", "i", "m", "a">>,
    <<"m", "i", "k", "e">>,
    <<"n", "o", "v", "e", "m", "b", "e", "r">>,
    <<"o", "s", "c", "a", "r">>,
    <<"p", "a", "p", "a">>,
    <<"q", "u", "e", "b", "e", "c">>,
    <<"r", "o", "m", "e", "o">>,
    <<"s", "i", "e", "r", "r", "a">>,
    <<"t", "a", "n", "g", "o">>,
    <<"u", "n", "i", "f", "o", "r", "m">>,
    <<"v", "i", "c", "t", "o", "r">>,
    <<"w", "h", "i", "s", "k", "e", "y">>,
    <<"x", "r", "a", "y">>
>>

Impls == {"AccessKey", "AccessKeyBytes", "New", "Get"}

\* the versions that keep the key in a guarded buffer
HandleImpls == {"AccessKey", "New"}

-----------------------------------------------------------------------------
(* Strings *)

Range(s) == {s[i] : i \in 1..Len(s)}

Prefix(s, n) == SubSeq(s, 1, IF n < Len(s) THEN n ELSE Len(s))

\* unicode.IsSpace for the characters a key file can hold
Space == {" ", "\n", "\t", "\r"}

\* the first position from i on that holds a non-space character, and the
\* first from i on that holds a space; Len(s) + 1 when there is none
NextWord(s, i) ==
    CHOOSE j \in i..(Len(s) + 1) :
        /\ j = Len(s) + 1 \/ s[j] \notin Space
        /\ \A m \in i..(j - 1) : s[m] \in Space

NextSpace(s, i) ==
    CHOOSE j \in i..(Len(s) + 1) :
        /\ j = Len(s) + 1 \/ s[j] \in Space
        /\ \A m \in i..(j - 1) : s[m] \notin Space

\* the fields of s from position i on, one word per step
RECURSIVE FieldsFrom(_, _)
FieldsFrom(s, i) ==
    LET start == NextWord(s, i)
        end == NextSpace(s, start)
    IN  IF start > Len(s) THEN <<>>
        ELSE <<SubSeq(s, start, end - 1)>> \o FieldsFrom(s, end)

\* strings.Fields: the maximal runs of non-space characters, in order
Fields(s) == FieldsFrom(s, 1)

RECURSIVE JoinFrom(_, _, _)
JoinFrom(words, sep, i) ==
    IF i > Len(words) THEN <<>>
    ELSE IF i = Len(words) THEN words[i]
    ELSE words[i] \o sep \o JoinFrom(words, sep, i + 1)

\* strings.Join
Join(words, sep) == JoinFrom(words, sep, 1)

RECURSIVE formatWordsFrom(_, _)
formatWordsFrom(words, i) ==
    IF i > Len(words) THEN <<>>
    ELSE words[i]
         \o (IF i % WordsPerLine = 0 THEN <<"\n">> ELSE <<" ">>)
         \o formatWordsFrom(words, i + 1)

\* part_003 formatWords: every word is followed by a space, or by a newline
\* after each sixth word (i is the code's i+1)
formatWords(words) == formatWordsFrom(words, 1)

-----------------------------------------------------------------------------
(* The filesystem (os.Stat, os.ReadFile, os.WriteFile) *)

\* the content of a file that does not exist
NoFile == <<"ENOENT">>

\* mutant of fileExists: the test of Stat's error inverted (err != nil)
fileExistsInverted(file, statFails) == file = NoFile \/ statFails

\* fileExists: os.Stat(filename) returned no error.  statFails: Stat fails
\* with an error other than not-exist (access denied); the code cannot tell
\* the two apart.
fileExists(file, statFails) == file # NoFile /\ ~statFails

\* os.ReadFile
ReadFile(file, fails) ==
    IF fails \/ file = NoFile
    THEN [err |-> TRUE, data |-> <<>>]
    ELSE [err |-> FALSE, data |-> file]

\* os.WriteFile = OpenFile(O_WRONLY|O_CREATE|O_TRUNC), Write, Close.
\* A failing call either could not open the file (cut = -1: the file is as
\* it was) or had truncated it and written only the first cut bytes.
WriteFile(old, data, fails, cut) ==
    IF ~fails THEN [err |-> FALSE, file |-> data]
    ELSE IF cut < 0 THEN [err |-> TRUE, file |-> old]
    ELSE [err |-> TRUE,
          file |-> Prefix(data, IF cut < Len(data) THEN cut ELSE Len(data) - 1)]

-----------------------------------------------------------------------------
(* The platform cipher (DPAPI, CRYPTPROTECT_LOCAL_MACHINE) *)

Machines == {"local", "foreign"}

\* windows.CryptProtectData on this or another machine
CryptProtectData(data, machine) == <<"DPAPI", machine>> \o data \o <<"MAC">>

\* the blobs CryptUnprotectData accepts on this machine
ValidBlob(blob) ==
    /\ Len(blob) >= 3
    /\ blob[1] = "DPAPI"
    /\ blob[2] = "local"
    /\ blob[Len(blob)] = "MAC"

\* windows.CryptUnprotectData
CryptUnprotectData(blob) ==
    IF ValidBlob(blob)
    THEN [err |-> FALSE, out |-> SubSeq(blob, 3, Len(blob) - 1)]
    ELSE [err |-> TRUE, out |-> <<>>]

\* encryptData / encryptDataUsingDPAPI: &data[0] panics (index out of range)
\* on an empty slice before the platform is called
encryptData(data, protectFails) ==
    IF Len(data) = 0 THEN [panic |-> TRUE, err |-> FALSE, out |-> <<>>]
    ELSE IF protectFails THEN [panic |-> FALSE, err |-> TRUE, out |-> <<>>]
    ELSE [panic |-> FALSE, err |-> FALSE,
          out |-> CryptProtectData(data, "local")]

\* mutant of decryptData: one byte too few copied out of the platform's blob
decryptDataShort(data) ==
    IF Len(data) = 0 THEN [panic |-> TRUE, err |-> FALSE, out |-> <<>>]
    ELSE LET r == CryptUnprotectData(data)
         IN [panic |-> FALSE, err |-> r.err,
             out |-> SubSeq(r.out, 1, Len(r.out) - 1)]

\* decryptData / decryptDataUsingDPAPI: the same &data[0]
decryptData(data) ==
    IF Len(data) = 0 THEN [panic |-> TRUE, err |-> FALSE, out |-> <<>>]
    ELSE LET r == CryptUnprotectData(data)
         IN [panic |-> FALSE, err |-> r.err, out |-> r.out]

-----------------------------------------------------------------------------
(* Key generation *)

\* the i-th byte of the random stream of a seed
RandByte(seed, i) == (seed * (i + 40)) % ByteRange

\* mutant of secureRandomInt: the random byte is returned unreduced
secureRandomIntUnreduced(max, byte) == IF max <= 0 THEN 0 ELSE byte

\* winkeysafe.go secureRandomInt: one random byte reduced modulo max
secureRandomInt(max, byte) == IF max <= 0 THEN 0 ELSE byte % max

\* winkeysafe.go / part_004 generate256BitsKey: 32 characters of charPool
\* (charPool[randomIndex] is 0-based)
generate256BitsKey(seed) ==
    [i \in 1..KeyLength |->
        charPool[secureRandomInt(Len(charPool), RandByte(seed, i)) + 1]]

\* part_002 generate256BitsKey(32): rand.Intn(len(characters)) per character
generate256BitsKeySized(size, seed) ==
    [i \in 1..size |-> characters[(RandByte(seed, i) % Len(characters)) + 1]]

\* part_003 generate256BitsKey: 24 words drawn with replacement from words
generate256BitsKeyWords(words, seed) ==
    IF Len(words) = 0 THEN <<>>
    ELSE [i \in 1..WordCount |-> words[(RandByte(seed, i) % Len(words)) + 1]]

\* part_003 validateWords: every word is in the words list
validateWords(words, list) ==
    LET known == Range(list)
    IN  \A i \in 1..Len(words) : words[i] \in known

-----------------------------------------------------------------------------
(* What a call hands back, and what it did *)

\* A return value.  ok: the bool of winkeysafe.go AccessKey, err == nil for
\* the others; val: the bytes/string returned; msg: the text of the message
\* or error ("" for none); cause: the wrapped error; leak: file content
\* formatted into the message.
Ret(ok, val, msg, cause, leak) ==
    [ok |-> ok, val |-> val, msg |-> msg, cause |-> cause, leak |-> leak]

\* a call that did not return (panic, log.Fatalf) or no call at all
NoRet == Ret(FALSE, <<>>, "", "", <<>>)

\* The outcome of one materialize call: the files afterwards, whether
\* secureKey was set and to which bytes, the return value, the files read,
\* the branch taken, the generated key, the key material logged, whether
\* the call panicked, and the injected fault that stopped it ("none").
Out(cipher, plain, load, key, ret, reads, path, gen, logged, panic, fault) ==
    [cipher |-> cipher, plain |-> plain, load |-> load, key |-> key,
     ret |-> ret, reads |-> reads, path |-> path, gen |-> gen,
     logged |-> logged, panic |-> panic, fault |-> fault]

\* a call that returns ret having changed nothing
Refuse(ret, reads, path, fault) ==
    Out(cipherFile, plainTextFile, FALSE, <<>>, ret, reads, path, <<>>, <<>>,
        FALSE, fault)

\* a call that panics having changed nothing
Panic(reads, path, fault) ==
    Out(cipherFile, plainTextFile, FALSE, <<>>, NoRet, reads, path, <<>>,
        <<>>, TRUE, fault)

\* The environment of one call: which Stat calls fail, which later step
\* fails, how much a failing write leaves, the random seed.  A call meets at
\* most one kind of fault.
Faults == {"none", "read", "protect", "write_plain", "write_cipher", "rand"}
Envs ==
    {e \in [stat : SUBSET {"cipher", "plain"}, fault : Faults,
            cut : -1..MaxCut, seed : 0..MaxSeed] :
        /\ e.stat # {} => e.fault = "none"
        /\ e.fault \notin {"write_plain", "write_cipher"} => e.cut = -1}

-----------------------------------------------------------------------------
(* winkeysafe.go: AccessKey() (bool, string) *)

\* lines 78-105: no file exists, generate a key
AccessKeyGenerate(e) ==
    IF e.fault = "rand"
    THEN \* secureRandomInt failed: log.Fatalf ends the process
         Panic({}, "generate", "rand")
    ELSE
    LET words == generate256BitsKey(e.seed)
        w1 == WriteFile(plainTextFile, words, e.fault = "write_plain", e.cut)
        rd == ReadFile(w1.file, e.fault = "read")
        c == encryptData(rd.data, e.fault = "protect")
        w2 == WriteFile(cipherFile, c.out, e.fault = "write_cipher", e.cut)
    IN  IF w1.err
        THEN Out(cipherFile, w1.file, FALSE, <<>>,
                 Ret(FALSE, <<>>, "failed to write key.txt: %v", "io", <<>>),
                 {}, "generate", words, <<>>, FALSE, "write_plain")
        ELSE IF rd.err
        THEN Out(cipherFile, w1.file, FALSE, <<>>,
                 Ret(FALSE, <<>>, "failed to read key.txt: %v", "io", <<>>),
                 {"plain"}, "generate", words, <<>>, FALSE, "read")
        ELSE IF c.panic
        THEN Out(cipherFile, w1.file, FALSE, <<>>, NoRet,
                 {"plain"}, "generate", words, <<>>, TRUE, "none")
        ELSE IF c.err
        THEN Out(cipherFile, w1.file, FALSE, <<>>,
                 Ret(FALSE, <<>>, "failed to encrypt generated key: %v",
                     "failed to encrypt data: %v", <<>>),
                 {"plain"}, "generate", words, <<>>, FALSE, "protect")
        ELSE IF w2.err
        THEN Out(w2.file, w1.file, FALSE, <<>>,
                 Ret(FALSE, <<>>, "failed to save key.dat: %v", "io", <<>>),
                 {"plain"}, "generate", words, <<>>, FALSE, "write_cipher")
        ELSE \* lines 100-105: the key is printed to the log, not returned
             Out(w2.file, w1.file, FALSE, <<>>,
                 Ret(FALSE, <<>>, "", "", <<>>),
                 {"plain"}, "generate", words, words, FALSE, "none")

\* lines 58-76: only key.txt exists, encrypt it as it is
AccessKeyEncrypt(e) ==
    LET rd == ReadFile(plainTextFile, e.fault = "read")
        c == encryptData(rd.data, e.fault = "protect")
        w == WriteFile(cipherFile, c.out, e.fault = "write_cipher", e.cut)
    IN  IF rd.err
        THEN Refuse(Ret(FALSE, <<>>, "failed to read key.txt: %v", "io", <<>>),
                    {"plain"}, "plain", "read")
        ELSE IF c.panic
        THEN Panic({"plain"}, "plain", "none")
        ELSE IF c.err
        THEN Refuse(Ret(FALSE, <<>>, "failed to encrypt key.txt: %v",
                        "failed to encrypt data: %v", <<>>),
                    {"plain"}, "plain", "protect")
        ELSE IF w.err
        THEN Out(w.file, plainTextFile, FALSE, <<>>,
                 Ret(FALSE, <<>>, "failed to save key.dat: %v", "io", <<>>),
                 {"plain"}, "plain", <<>>, <<>>, FALSE, "write_cipher")
        ELSE Out(w.file, plainTextFile, FALSE, <<>>,
                 Ret(FALSE, <<>>,
                     "key.txt successfully encrypted to key.dat. Remove key.txt from this server and store it safely",
                     "", <<>>),
                 {"plain"}, "plain", <<>>, <<>>, FALSE, "none")

\* mutant of AccessKeyLoad: the decrypted key is never stored in secureKey
AccessKeyLoadNotStored(e) ==
    LET rd == ReadFile(cipherFile, e.fault = "read")
        d == decryptData(rd.data)
    IN  IF rd.err
        THEN Refuse(Ret(FALSE, <<>>, "failed to read key.dat: %v", "io", <<>>),
                    {"cipher"}, "cipher", "read")
        ELSE IF d.panic
        THEN Panic({"cipher"}, "cipher", "none")
        ELSE IF d.err
        THEN Refuse(Ret(FALSE, <<>>, "failed to decrypt key.dat: %v",
                        "failed to decrypt data: %v", <<>>),
                    {"cipher"}, "cipher", "none")
        ELSE Refuse(Ret(TRUE, <<>>, "decryption key loaded", "", <<>>),
                    {"cipher"}, "cipher", "none")

\* lines 42-56: key.dat exists, decrypt it into secureKey
AccessKeyLoad(e) ==
    LET rd == ReadFile(cipherFile, e.fault = "read")
        d == decryptData(rd.data)
    IN  IF rd.err
        THEN Refuse(Ret(FALSE, <<>>, "failed to read key.dat: %v", "io", <<>>),
                    {"cipher"}, "cipher", "read")
        ELSE IF d.panic
        THEN Panic({"cipher"}, "cipher", "none")
        ELSE IF d.err
        THEN Refuse(Ret(FALSE, <<>>, "failed to decrypt key.dat: %v",
                        "failed to decrypt data: %v", <<>>),
                    {"cipher"}, "cipher", "none")
        ELSE Out(cipherFile, plainTextFile, TRUE, d.out,
                 Ret(TRUE, <<>>, "decryption key loaded", "", <<>>),
                 {"cipher"}, "cipher", <<>>, <<>>, FALSE, "none")

\* lines 33-106
AccessKeyOut(e) ==
    LET keyDatExists == fileExists(cipherFile, "cipher" \in e.stat)
        keyTxtExists == fileExists(plainTextFile, "plain" \in e.stat)
    IN  IF keyDatExists /\ keyTxtExists
        THEN Refuse(Ret(FALSE, <<>>,
                        "both key.dat and key.txt exist. Copy key.txt to a safe place and remove it from this server",
                        "", <<>>),
                    {}, "both", "none")
        ELSE IF keyDatExists THEN AccessKeyLoad(e)
        ELSE IF keyTxtExists THEN AccessKeyEncrypt(e)
        ELSE AccessKeyGenerate(e)

-----------------------------------------------------------------------------
(* unnamed/part_004: AccessKey() ([]byte, error) *)

\* lines 59-81: the generated key is read back and returned.  The call site
\* takes generate256BitsKey's result as one value, so a failing random
\* source has no path here.
AccessKeyBytesGenerate(e) ==
    LET words == generate256BitsKey(e.seed)
        w1 == WriteFile(plainTextFile, words, e.fault = "write_plain", e.cut)
        rd == ReadFile(w1.file, e.fault = "read")
        c == encryptData(rd.data, e.fault = "protect")
        w2 == WriteFile(cipherFile, c.out, e.fault = "write_cipher", e.cut)
    IN  IF w1.err
        THEN Out(cipherFile, w1.file, FALSE, <<>>,
                 Ret(FALSE, <<>>, "failed to write key.txt: %v", "io", <<>>),
                 {}, "generate", words, <<>>, FALSE, "write_plain")
        ELSE IF rd.err
        THEN Out(cipherFile, w1.file, FALSE, <<>>,
                 Ret(FALSE, <<>>, "failed to read key.txt: %v", "io", <<>>),
                 {"plain"}, "generate", words, <<>>, FALSE, "read")
        ELSE IF c.panic
        THEN Out(cipherFile, w1.file, FALSE, <<>>, NoRet,
                 {"plain"}, "generate", words, <<>>, TRUE, "none")
        ELSE IF c.err
        THEN Out(cipherFile, w1.file, FALSE, <<>>,
                 Ret(FALSE, <<>>, "failed to encrypt generated key: %v",
                     "failed to encrypt data: %v", <<>>),
                 {"plain"}, "generate", words, <<>>, FALSE, "protect")
        ELSE IF w2.err
        THEN Out(w2.file, w1.file, FALSE, <<>>,
                 Ret(FALSE, <<>>, "failed to save key.dat: %v", "io", <<>>),
                 {"plain"}, "generate", words, <<>>, FALSE, "write_cipher")
        ELSE Out(w2.file, w1.file, FALSE, <<>>,
                 Ret(TRUE, rd.data, "", "", <<>>),
                 {"plain"}, "generate", words, <<>>, FALSE, "none")

\* lines 39-57: key.txt is encrypted as it is and returned with an error
AccessKeyBytesEncrypt(e) ==
    LET rd == ReadFile(plainTextFile, e.fault = "read")
        c == encryptData(rd.data, e.fault = "protect")
        w == WriteFile(cipherFile, c.out, e.fault = "write_cipher", e.cut)
    IN  IF rd.err
        THEN Refuse(Ret(FALSE, <<>>, "failed to read key.txt: %v", "io", <<>>),
                    {"plain"}, "plain", "read")
        ELSE IF c.panic
        THEN Panic({"plain"}, "plain", "none")
        ELSE IF c.err
        THEN Refuse(Ret(FALSE, <<>>, "failed to encrypt key.txt: %v",
                        "failed to encrypt data: %v", <<>>),
                    {"plain"}, "plain", "protect")
        ELSE IF w.err
        THEN Out(w.file, plainTextFile, FALSE, <<>>,
                 Ret(FALSE, <<>>, "failed to save key.dat: %v", "io", <<>>),
                 {"plain"}, "plain", <<>>, <<>>, FALSE, "write_cipher")
        ELSE Out(w.file, plainTextFile, FALSE, <<>>,
                 Ret(FALSE, rd.data,
                     "key.txt successfully encrypted to key.dat. Remove key.txt from this server and store it safely",
                     "", <<>>),
                 {"plain"}, "plain", <<>>, <<>>, FALSE, "none")

\* lines 24-37: the decrypted key is returned
AccessKeyBytesLoad(e) ==
    LET rd == ReadFile(cipherFile, e.fault = "read")
        d == decryptData(rd.data)
    IN  IF rd.err
        THEN Refuse(Ret(FALSE, <<>>, "failed to read key.dat: %v", "io", <<>>),
                    {"cipher"}, "cipher", "read")
        ELSE IF d.panic
        THEN Panic({"cipher"}, "cipher", "none")
        ELSE IF d.err
        THEN Refuse(Ret(FALSE, <<>>, "failed to decrypt key.dat: %v",
                        "failed to decrypt data: %v", <<>>),
                    {"cipher"}, "cipher", "none")
        ELSE Refuse(Ret(TRUE, d.out, "", "", <<>>), {"cipher"}, "cipher", "none")

\* lines 14-82
AccessKeyBytesOut(e) ==
    LET keyDatExists == fileExists(cipherFile, "cipher" \in e.stat)
        keyTxtExists == fileExists(plainTextFile, "plain" \in e.stat)
    IN  IF keyDatExists /\ keyTxtExists
        THEN Refuse(Ret(FALSE, <<>>,
                        "both key.dat and key.txt exist. Copy key.txt to a safe place and remove it from this server",
                        "", <<>>),
                    {}, "both", "none")
        ELSE IF keyDatExists THEN AccessKeyBytesLoad(e)
        ELSE IF keyTxtExists THEN AccessKeyBytesEncrypt(e)
        ELSE AccessKeyBytesGenerate(e)

-----------------------------------------------------------------------------
(* unnamed/part_003: New(cipherFile, plainTextFile) (string, error) *)

\* lines 103-128: 24 words, written joined by spaces, returned formatted
NewGenerate(e) ==
    LET words == generate256BitsKeyWords(wordsList, e.seed)
        text == Join(words, <<" ">>)
        w1 == WriteFile(plainTextFile, text, e.fault = "write_plain", e.cut)
        rd == ReadFile(w1.file, e.fault = "read")
        c == encryptData(rd.data, e.fault = "protect")
        w2 == WriteFile(cipherFile, c.out, e.fault = "write_cipher", e.cut)
    IN  IF w1.err
        THEN Out(cipherFile, w1.file, FALSE, <<>>,
                 Ret(FALSE, <<>>, "failed to write %s: %w", "io", <<>>),
                 {}, "generate", text, <<>>, FALSE, "write_plain")
        ELSE IF rd.err
        THEN Out(cipherFile, w1.file, FALSE, <<>>,
                 Ret(FALSE, <<>>, "failed to read %s: %w", "io", <<>>),
                 {"plain"}, "generate", text, <<>>, FALSE, "read")
        ELSE IF c.panic
        THEN Out(cipherFile, w1.file, FALSE, <<>>, NoRet,
                 {"plain"}, "generate", text, <<>>, TRUE, "none")
        ELSE IF c.err
        THEN Out(cipherFile, w1.file, FALSE, <<>>,
                 Ret(FALSE, <<>>, "failed to encrypt generated key: %w",
                     "failed to encrypt data: %v", <<>>),
                 {"plain"}, "generate", text, <<>>, FALSE, "protect")
        ELSE IF w2.err
        THEN Out(w2.file, w1.file, FALSE, <<>>,
                 Ret(FALSE, <<>>, "failed to save %s: %w", "io", <<>>),
                 {"plain"}, "generate", text, <<>>, FALSE, "write_cipher")
        ELSE Out(w2.file, w1.file, FALSE, <<>>,
                 Ret(TRUE, formatWords(words), "", "", <<>>),
                 {"plain"}, "generate", text, <<>>, FALSE, "none")

\* lines 75-101: the words of the plaintext file are validated, joined by
\* single spaces and encrypted; the file content goes into the error texts
NewEncrypt(e) ==
    LET rd == ReadFile(plainTextFile, e.fault = "read")
        words == Fields(rd.data)
        c == encryptData(Join(words, <<" ">>), e.fault = "protect")
        w == WriteFile(cipherFile, c.out, e.fault = "write_cipher", e.cut)
    IN  IF rd.err
        THEN Refuse(Ret(FALSE, <<>>, "failed to read %s: %w", "io", <<>>),
                    {"plain"}, "plain", "read")
        ELSE IF Len(words) # WordCount \/ ~validateWords(words, wordsList)
        THEN Refuse(Ret(FALSE, <<>>,
                        "%s must contain exactly 24 valid words from the word list",
                        "", rd.data),
                    {"plain"}, "plain", "none")
        ELSE IF c.panic
        THEN Panic({"plain"}, "plain", "none")
        ELSE IF c.err
        THEN Refuse(Ret(FALSE, <<>>, "failed to encrypt %s: %w",
                        "failed to encrypt data: %v", rd.data),
                    {"plain"}, "plain", "protect")
        ELSE IF w.err
        THEN Out(w.file, plainTextFile, FALSE, <<>>,
                 Ret(FALSE, <<>>, "failed to save %s: %w", "io", <<>>),
                 {"plain"}, "plain", <<>>, <<>>, FALSE, "write_cipher")
        ELSE Out(w.file, plainTextFile, FALSE, <<>>,
                 Ret(TRUE, <<>>, "", "", <<>>),
                 {"plain"}, "plain", <<>>, <<>>, FALSE, "none")

\* lines 54-73: the cipher file is decrypted into secureKey
NewLoad(e) ==
    LET rd == ReadFile(cipherFile, e.fault = "read")
        d == decryptData(rd.data)
    IN  IF rd.err
        THEN Refuse(Ret(FALSE, <<>>, "failed to read key.dat: %w", "io", <<>>),
                    {"cipher"}, "cipher", "read")
        ELSE IF d.panic
        THEN Panic({"cipher"}, "cipher", "none")
        ELSE IF d.err
        THEN Refuse(Ret(FALSE, <<>>, "failed to decrypt key.dat: %w",
                        "failed to decrypt data: %v", <<>>),
                    {"cipher"}, "cipher", "none")
        ELSE Out(cipherFile, plainTextFile, TRUE, d.out,
                 Ret(TRUE, <<>>, "", "", <<>>),
                 {"cipher"}, "cipher", <<>>, <<>>, FALSE, "none")

\* lines 41-129
NewOut(e) ==
    LET keyDatExists == fileExists(cipherFile, "cipher" \in e.stat)
        keyTxtExists == fileExists(plainTextFile, "plain" \in e.stat)
    IN  IF Len(wordsList) = 0
        THEN Refuse(Ret(FALSE, <<>>,
                        "wordsList is not initialized. Call New() before AccessKey()",
                        "", <<>>),
                    {}, "config", "none")
        ELSE IF keyDatExists /\ keyTxtExists
        THEN Refuse(Ret(FALSE, <<>>,
                        "copy %s to a safe place and remove it from this server",
                        "", <<>>),
                    {}, "both", "none")
        ELSE IF keyDatExists THEN NewLoad(e)
        ELSE IF keyTxtExists THEN NewEncrypt(e)
        ELSE NewGenerate(e)

-----------------------------------------------------------------------------
(* unnamed/part_002: Get(cipherFile, plainTextFile) ([]byte, error) *)

\* lines 70-93: the key is written, encrypted from memory and returned
GetGenerate(e) ==
    LET plainTextKey == generate256BitsKeySized(KeyLength, e.seed)
        w1 == WriteFile(plainTextFile, plainTextKey, e.fault = "write_plain",
                        e.cut)
        c == encryptData(plainTextKey, e.fault = "protect")
        w2 == WriteFile(cipherFile, c.out, e.fault = "write_cipher", e.cut)
    IN  IF w1.err
        THEN Out(cipherFile, w1.file, FALSE, <<>>,
                 Ret(FALSE, <<>>, "failed to write %s: %w", "io", <<>>),
                 {}, "generate", plainTextKey, <<>>, FALSE, "write_plain")
        ELSE IF c.panic
        THEN Out(cipherFile, w1.file, FALSE, <<>>, NoRet,
                 {}, "generate", plainTextKey, <<>>, TRUE, "none")
        ELSE IF c.err
        THEN Out(cipherFile, w1.file, FALSE, <<>>,
                 Ret(FALSE, <<>>, "failed to encrypt generated key: %w",
                     "failed to encrypt data: %v", <<>>),
                 {}, "generate", plainTextKey, <<>>, FALSE, "protect")
        ELSE IF w2.err
        THEN Out(w2.file, w1.file, FALSE, <<>>,
                 Ret(FALSE, <<>>, "failed to save %s: %w", "io", <<>>),
                 {}, "generate", plainTextKey, <<>>, FALSE, "write_cipher")
        ELSE Out(w2.file, w1.file, FALSE, <<>>,
                 Ret(TRUE, plainTextKey, "", "", <<>>),
                 {}, "generate", plainTextKey, <<>>, FALSE, "none")

\* lines 45-68: a 32-byte plaintext file is encrypted; the call then fails
\* with the error of the both-files case
GetEncrypt(e) ==
    LET rd == ReadFile(plainTextFile, e.fault = "read")
        c == encryptData(rd.data, e.fault = "protect")
        w == WriteFile(cipherFile, c.out, e.fault = "write_cipher", e.cut)
    IN  IF rd.err
        THEN Refuse(Ret(FALSE, <<>>, "failed to read %s: %w", "io", <<>>),
                    {"plain"}, "plain", "read")
        ELSE IF Len(rd.data) # KeyLength
        THEN Refuse(Ret(FALSE, <<>>,
                        "%s must contain a key that is 32 characters",
                        "", rd.data),
                    {"plain"}, "plain", "none")
        ELSE IF c.panic
        THEN Panic({"plain"}, "plain", "none")
        ELSE IF c.err
        THEN Refuse(Ret(FALSE, <<>>, "failed to encrypt %s using DPAPI: %w",
                        "failed to encrypt data: %v", rd.data),
                    {"plain"}, "plain", "protect")
        ELSE IF w.err
        THEN Out(w.file, plainTextFile, FALSE, <<>>,
                 Ret(FALSE, <<>>, "failed to save %s: %w", "io", <<>>),
                 {"plain"}, "plain", <<>>, <<>>, FALSE, "write_cipher")
        ELSE Out(w.file, plainTextFile, FALSE, <<>>,
                 Ret(FALSE, <<>>,
                     "can't have both plaintext and cipher keys on your server, copy %s to a safe place and remove it from this server",
                     "", <<>>),
                 {"plain"}, "plain", <<>>, <<>>, FALSE, "none")

\* lines 27-40: the decrypted key is returned
GetLoad(e) ==
    LET rd == ReadFile(cipherFile, e.fault = "read")
        d == decryptData(rd.data)
    IN  IF rd.err
        THEN Refuse(Ret(FALSE, <<>>, "failed to read %s: %w", "io", <<>>),
                    {"cipher"}, "cipher", "read")
        ELSE IF d.panic
        THEN Panic({"cipher"}, "cipher", "none")
        ELSE IF d.err
        THEN Refuse(Ret(FALSE, <<>>, "failed to decrypt %s: %w",
                        "failed to decrypt data: %v", <<>>),
                    {"cipher"}, "cipher", "none")
        ELSE Refuse(Ret(TRUE, d.out, "", "", <<>>), {"cipher"}, "cipher", "none")

\* lines 16-94
GetOut(e) ==
    LET keyDatExists == fileExists(cipherFile, "cipher" \in e.stat)
        keyTxtExists == fileExists(plainTextFile, "plain" \in e.stat)
    IN  IF keyDatExists /\ keyTxtExists
        THEN Refuse(Ret(FALSE, <<>>,
                        "can't have both plaintext and cipher keys on your server, copy %s to a safe place and remove it from this server",
                        "", <<>>),
                    {}, "both", "none")
        ELSE IF keyDatExists THEN GetLoad(e)
        ELSE IF keyTxtExists THEN GetEncrypt(e)
        ELSE GetGenerate(e)

-----------------------------------------------------------------------------
(* memguard and the accessors *)

\* memguard.NewBufferFromBytes: a new immutable (frozen) buffer with a copy
\* of the bytes
NewBufferFromBytes(bufs, bytes) ==
    Append(bufs, [bytes |-> bytes, state |-> "frozen"])

\* LockedBuffer.Melt / Freeze / Destroy; a destroyed buffer stays destroyed
Melt(bufs, k) ==
    IF bufs[k].state = "destroyed" THEN bufs
    ELSE [bufs EXCEPT ![k].state = "melted"]

Freeze(bufs, k) ==
    IF bufs[k].state = "destroyed" THEN bufs
    ELSE [bufs EXCEPT ![k].state = "frozen"]

Destroy(bufs, k) == [bufs EXCEPT ![k] = [bytes |-> <<>>, state |-> "destroyed"]]

\* What an accessor did: the buffers afterwards, the return value, whether
\* Melt was called, whether the call panicked, and whether the value handed
\* back is the guarded memory itself (LockedBuffer.Bytes() is a slice over
\* the buffer, LockedBuffer.String() a string header over the same bytes).
Got(bufs, ret, melted, panic, alias) ==
    [buffers |-> bufs, ret |-> ret, melted |-> melted, panic |-> panic,
     alias |-> alias]

\* mutant of GetKeyOut: the nil check inverted
GetKeyOutInverted ==
    IF secureKey # 0
    THEN Got(buffers, Ret(FALSE, <<>>, "key not loaded into memory", "", <<>>),
             FALSE, FALSE, FALSE)
    ELSE Got(buffers, NoRet, TRUE, TRUE, FALSE)

\* mutant of GetKeyOut: the deferred Freeze is missing
GetKeyOutNotFrozen ==
    IF secureKey = 0
    THEN Got(buffers, Ret(FALSE, <<>>, "key not loaded into memory", "", <<>>),
             FALSE, FALSE, FALSE)
    ELSE LET melted == Melt(buffers, secureKey)
         IN Got(melted, Ret(TRUE, melted[secureKey].bytes, "", "", <<>>),
                TRUE, FALSE, TRUE)

\* winkeysafe.go GetKey, lines 19-30: nil check, Melt, deferred Freeze
GetKeyOut ==
    IF secureKey = 0
    THEN Got(buffers, Ret(FALSE, <<>>, "key not loaded into memory", "", <<>>),
             FALSE, FALSE, FALSE)
    ELSE LET melted == Melt(buffers, secureKey)
         IN Got(Freeze(melted, secureKey),
                Ret(TRUE, melted[secureKey].bytes, "", "", <<>>), TRUE, FALSE,
                TRUE)

\* part_003 GetKey, lines 20-29: Melt comes before the nil check, and Melt
\* on a nil *LockedBuffer dereferences it (runtime panic)
GetKeyStringOut ==
    IF secureKey = 0
    THEN Got(buffers, NoRet, TRUE, TRUE, FALSE)
    ELSE LET melted == Melt(buffers, secureKey)
         IN IF secureKey = 0
            THEN Got(Freeze(melted, secureKey),
                     Ret(FALSE, <<>>, "key not loaded into memory", "", <<>>),
                     TRUE, FALSE, FALSE)
            ELSE Got(Freeze(melted, secureKey),
                     Ret(TRUE, melted[secureKey].bytes, "", "", <<>>),
                     TRUE, FALSE, TRUE)

-----------------------------------------------------------------------------
(* The record of the last call and of the calls since a generation *)

Pre == [cipher |-> cipherFile, plain |-> plainTextFile, key |-> secureKey,
        buffers |-> buffers]

\* prev: the generation the call before this one failed in after it had
\* written the plaintext file (fault "" when it was no such call)
NoPrev == [fault |-> "", gen |-> <<>>]

Prev ==
    IF /\ last.path = "generate"
       /\ last.fault \in {"protect", "write_cipher"}
       /\ ~last.panic
    THEN [fault |-> last.fault, gen |-> last.gen]
    ELSE NoPrev

Call(op, stat, r) ==
    [op |-> op, stat |-> stat, fault |-> r.fault, pre |-> Pre, ret |-> r.ret,
     reads |-> r.reads, path |-> r.path, gen |-> r.gen, logged |-> r.logged,
     melted |-> FALSE, panic |-> r.panic, prev |-> Prev]

Access(op, g) ==
    [op |-> op, stat |-> {}, fault |-> "none", pre |-> Pre, ret |-> g.ret,
     reads |-> {}, path |-> "", gen |-> <<>>, logged |-> <<>>,
     melted |-> g.melted, panic |-> g.panic, prev |-> NoPrev]

NoPre == [cipher |-> NoFile, plain |-> NoFile, key |-> 0, buffers |-> <<>>]

Other(op) ==
    [op |-> op, stat |-> {}, fault |-> "none", pre |-> NoPre, ret |-> NoRet,
     reads |-> {}, path |-> "", gen |-> <<>>, logged |-> <<>>,
     melted |-> FALSE, panic |-> FALSE, prev |-> NoPrev]

NoHist == [key |-> <<>>, ops |-> <<>>]

\* the sequences of calls after a first-run generation that are followed
\* ("Materialize" is the materialize call of the version)
Scenarios ==
    {<<"RemovePlainText", "Materialize", "GetKey">>,
     <<"Restart", "RemovePlainText", "Materialize">>,
     <<"RemovePlainText", "Restart", "Materialize">>,
     <<"Restart", "Materialize">>,
     <<"Materialize">>}

IsPrefix(p, q) == Len(p) <= Len(q) /\ SubSeq(q, 1, Len(p)) = p

\* hist after a call: a first-run generation that ran without fault starts
\* a trail; a call with an injected fault, or one outside Scenarios, ends it
Trail(op, clean, generated, key) ==
    IF generated THEN [key |-> key, ops |-> <<>>]
    ELSE IF /\ hist.key # <<>>
            /\ clean
            /\ \E sc \in Scenarios : IsPrefix(Append(hist.ops, op), sc)
         THEN [hist EXCEPT !.ops = Append(@, op)]
         ELSE NoHist

-----------------------------------------------------------------------------
(* Actions *)

\* one materialize call with outcome r under environment e
Materialize(op, e, r) ==
    /\ ~crashed
    /\ r.load => Len(buffers) < MaxBuffers
    \* the environment holds no fault the call did not meet and no random
    \* stream it did not draw from
    /\ e.fault = r.fault
    /\ e.seed # 0 => r.path = "generate"
    \* os.Stat of a file that is not there fails whatever the environment:
    \* only the failures on files that are there are drawn
    /\ "cipher" \in e.stat => cipherFile # NoFile
    /\ "plain" \in e.stat => plainTextFile # NoFile
    /\ cipherFile' = r.cipher
    /\ plainTextFile' = r.plain
    /\ buffers' = IF r.load THEN NewBufferFromBytes(buffers, r.key) ELSE buffers
    /\ secureKey' = IF r.load THEN Len(buffers) + 1 ELSE secureKey
    /\ crashed' = r.panic
    /\ last' = Call(op, e.stat, r)
    /\ hist' = Trail("Materialize", e.stat = {} /\ r.fault = "none" /\ ~r.panic,
                     r.path = "generate" /\ e.stat = {} /\ r.fault = "none"
                         /\ ~r.panic,
                     r.gen)
    /\ UNCHANGED <<impl, wordsList, held, origin, race>>

AccessKey ==
    /\ impl = "AccessKey"
    /\ \E e \in Envs : Materialize("AccessKey", e, AccessKeyOut(e))

AccessKeyBytes ==
    /\ impl = "AccessKeyBytes"
    /\ \E e \in Envs : Materialize("AccessKeyBytes", e, AccessKeyBytesOut(e))

New ==
    /\ impl = "New"
    /\ \E e \in Envs : Materialize("New", e, NewOut(e))

Get ==
    /\ impl = "Get"
    /\ \E e \in Envs : Materialize("Get", e, GetOut(e))

\* the caller holds nothing
NoHeld == [live |-> FALSE, ref |-> 0, orig |-> <<>>, copy |-> <<>>]

\* what the caller holds after a successful accessor call: orig is the
\* content at the return; ref the buffer the value is a view of (0 when it
\* is a copy of its own, kept in copy)
Hold(g) ==
    IF g.ret.ok /\ ~g.panic
    THEN [live |-> TRUE, ref |-> IF g.alias THEN secureKey ELSE 0,
          orig |-> g.ret.val, copy |-> IF g.alias THEN <<>> ELSE g.ret.val]
    ELSE held

\* one accessor call with outcome g
Retrieve(op, g) ==
    /\ ~crashed
    /\ buffers' = g.buffers
    /\ crashed' = g.panic
    /\ last' = Access(op, g)
    /\ held' = Hold(g)
    /\ hist' = Trail(op, ~g.panic, FALSE, <<>>)
    /\ UNCHANGED <<impl, wordsList, cipherFile, plainTextFile, secureKey,
                   origin, race>>

GetKey ==
    /\ impl = "AccessKey"
    /\ Retrieve("GetKey", GetKeyOut)

GetKeyString ==
    /\ impl = "New"
    /\ Retrieve("GetKey", GetKeyStringOut)

\* part_003 DestroyKey, lines 32-37
DestroyKey ==
    /\ impl = "New"
    /\ ~crashed
    /\ buffers' = IF secureKey # 0 THEN Destroy(buffers, secureKey) ELSE buffers
    /\ secureKey' = 0
    /\ last' = [Other("DestroyKey") EXCEPT !.pre = Pre]
    /\ hist' = Trail("DestroyKey", TRUE, FALSE, <<>>)
    /\ UNCHANGED <<impl, wordsList, cipherFile, plainTextFile, crashed, held,
                   origin, race>>

\* the operator removes the plaintext file from the server
RemovePlainText ==
    /\ plainTextFile # NoFile
    /\ plainTextFile' = NoFile
    /\ last' = Other("RemovePlainText")
    /\ hist' = Trail("RemovePlainText", TRUE, FALSE, <<>>)
    /\ origin' = "given"
    /\ UNCHANGED <<impl, wordsList, cipherFile, buffers, secureKey, crashed,
                   held, race>>

\* the process ends and a fresh one starts: no buffer, secureKey nil
Restart ==
    /\ buffers' = <<>>
    /\ secureKey' = 0
    /\ crashed' = FALSE
    /\ last' = Other("Restart")
    /\ hist' = Trail("Restart", TRUE, FALSE, <<>>)
    /\ held' = NoHeld
    /\ UNCHANGED <<impl, wordsList, cipherFile, plainTextFile, origin, race>>

\* the bytes the caller sees when it reads the value GetKey gave it: its own
\* copy, or the guarded memory the value is a view of (wiped by Destroy)
HeldBytes ==
    IF held.ref = 0 THEN held.copy ELSE buffers[held.ref].bytes

Scribble(bytes) == [i \in 1..Len(bytes) |-> "NUL"]

\* the caller overwrites the bytes GetKey gave it.  A view of a frozen
\* (read-only) buffer faults; a view of a destroyed buffer is a dangling
\* reference: the write faults or lands in memory nobody reads.
CallerWrite ==
    /\ ~crashed
    /\ held.live
    /\ IF held.ref = 0
       THEN /\ held' = [held EXCEPT !.copy = Scribble(@)]
            /\ UNCHANGED <<buffers, crashed>>
       ELSE IF buffers[held.ref].state = "melted"
       THEN /\ buffers' = [buffers EXCEPT ![held.ref].bytes = Scribble(@)]
            /\ UNCHANGED <<held, crashed>>
       ELSE IF buffers[held.ref].state = "frozen"
       THEN /\ crashed' = TRUE
            /\ UNCHANGED <<buffers, held>>
       ELSE /\ crashed' \in BOOLEAN
            /\ UNCHANGED <<buffers, held>>
    /\ last' = [Other("CallerWrite") EXCEPT !.pre = Pre]
    /\ hist' = Trail("CallerWrite", TRUE, FALSE, <<>>)
    /\ UNCHANGED <<impl, wordsList, cipherFile, plainTextFile, secureKey,
                   origin, race>>

-----------------------------------------------------------------------------
(* Two processes running materialize at the same time *)

Procs == {1, 2}

\* a process of the race: where it is in materialize, what its two
\* existence checks answered, the bytes it is about to encrypt
Proc(pc, keyDatExists, keyTxtExists, data) ==
    [pc |-> pc, keyDatExists |-> keyDatExists, keyTxtExists |-> keyTxtExists,
     data |-> data]

\* no race is run
NoRace == [p \in Procs |-> Proc("none", FALSE, FALSE, <<>>)]

-----------------------------------------------------------------------------
(* Initial states: a fresh process of one version, any content of the two
   files an operator or an earlier run may have left *)

\* the plaintext file a first run of the version writes (seed 1)
SampleWords == generate256BitsKeyWords(testWordsList, 1)

SampleKey(i) ==
    IF i = "New" THEN Join(SampleWords, <<" ">>)
    ELSE IF i = "Get" THEN generate256BitsKeySized(KeyLength, 1)
    ELSE generate256BitsKey(1)

InitPlainTexts(i) ==
    {NoFile, <<>>, SampleKey(i)} \cup
    IF i = "New"
    THEN {formatWords(SampleWords),
          Join(SubSeq(SampleWords, 1, WordCount - 1), <<" ">>),
          Join([SampleWords EXCEPT ![1] = <<"z", "u", "l", "u">>], <<" ">>)}
    ELSE {SampleKey(i) \o <<"\n">>,
          SubSeq(SampleKey(i), 1, KeyLength - 1),
          [SampleKey(i) EXCEPT ![1] = " "]}

InitCiphers(i) ==
    LET blob == CryptProtectData(SampleKey(i), "local")
    IN {NoFile, <<>>, <<"j", "u", "n", "k">>, blob,
        SubSeq(blob, 1, Len(blob) - 1),
        CryptProtectData(SampleKey(i), "foreign")}

Init ==
    /\ impl \in Impls
    /\ wordsList \in (IF impl = "New" THEN {<<>>, testWordsList} ELSE {<<>>})
    /\ cipherFile \in InitCiphers(impl)
    /\ plainTextFile \in InitPlainTexts(impl)
    /\ buffers = <<>>
    /\ secureKey = 0
    /\ crashed = FALSE
    /\ last = Other("none")
    /\ hist = NoHist
    /\ held = NoHeld
    /\ origin = (IF cipherFile = NoFile /\ plainTextFile = NoFile
                 THEN "empty" ELSE "given")
    /\ race = NoRace

Next ==
    \/ AccessKey
    \/ AccessKeyBytes
    \/ New
    \/ Get
    \/ GetKey
    \/ GetKeyString
    \/ DestroyKey
    \/ RemovePlainText
    \/ Restart
    \/ CallerWrite

Spec == Init /\ [][Next]_vars

-----------------------------------------------------------------------------
(* The concurrent first run: two processes of one version call materialize
   against the same, initially empty, pair of files.  A step is one system
   call of one process; no call fails. *)

\* the plaintext a generation of the version writes
Generated(seed) ==
    IF impl = "New" THEN Join(generate256BitsKeyWords(wordsList, seed), <<" ">>)
    ELSE IF impl = "Get" THEN generate256BitsKeySized(KeyLength, seed)
    ELSE generate256BitsKey(seed)

\* the check the plaintext-only path of the version makes, and the bytes
\* it encrypts
Accepts(text) ==
    IF impl = "New"
    THEN Len(Fields(text)) = WordCount /\ validateWords(Fields(text), wordsList)
    ELSE IF impl = "Get" THEN Len(text) = KeyLength
    ELSE TRUE

Encrypted(text) == IF impl = "New" THEN Join(Fields(text), <<" ">>) ELSE text

Step(p, proc) ==
    /\ race' = [race EXCEPT ![p] = proc]
    /\ UNCHANGED <<impl, wordsList, buffers, secureKey, crashed, last, hist,
                   held, origin>>

\* keyDatExists := fileExists(cipherFile)
RaceStatCipher ==
    \E p \in Procs :
        /\ race[p].pc = "start"
        /\ Step(p, Proc("stat", fileExists(cipherFile, FALSE), FALSE, <<>>))
        /\ UNCHANGED <<cipherFile, plainTextFile>>

\* keyTxtExists := fileExists(plainTextFile), and the choice of the path.
\* The both-files refusal ends the call; so does the cipher-only path here,
\* which reads the cipher file and writes no file.
RaceStatPlain ==
    \E p \in Procs :
        LET keyDatExists == race[p].keyDatExists
            keyTxtExists == fileExists(plainTextFile, FALSE)
        IN  /\ race[p].pc = "stat"
            /\ Step(p, Proc(IF keyDatExists THEN "done"
                            ELSE IF keyTxtExists THEN "encrypt"
                            ELSE "generate",
                            keyDatExists, keyTxtExists, <<>>))
            /\ UNCHANGED <<cipherFile, plainTextFile>>

\* no file was seen: generate a key and write the plaintext file.
\* part_002 encrypts the key it holds, the others read the file back.
RaceWritePlain ==
    \E p \in Procs : \E seed \in 0..MaxSeed :
        /\ race[p].pc = "generate"
        /\ plainTextFile' = WriteFile(plainTextFile, Generated(seed), FALSE, -1).file
        /\ Step(p, IF impl = "Get"
                   THEN Proc("save", FALSE, FALSE, Generated(seed))
                   ELSE Proc("readback", FALSE, FALSE, <<>>))
        /\ UNCHANGED cipherFile

\* plainTextKey := os.ReadFile(plainTextFile) after the write
RaceReadBack ==
    \E p \in Procs :
        /\ race[p].pc = "readback"
        /\ Step(p, Proc("save", FALSE, FALSE,
                        ReadFile(plainTextFile, FALSE).data))
        /\ UNCHANGED <<cipherFile, plainTextFile>>

\* only the plaintext file was seen: read it and check it
RaceReadPlain ==
    \E p \in Procs :
        LET rd == ReadFile(plainTextFile, FALSE)
        IN  /\ race[p].pc = "encrypt"
            /\ Step(p, IF rd.err \/ ~Accepts(rd.data)
                       THEN Proc("done", FALSE, TRUE, <<>>)
                       ELSE Proc("save", FALSE, TRUE, Encrypted(rd.data)))
            /\ UNCHANGED <<cipherFile, plainTextFile>>

\* encryptData and os.WriteFile(cipherFile), the end of both writing paths
RaceWriteCipher ==
    \E p \in Procs :
        /\ race[p].pc = "save"
        /\ cipherFile' =
              WriteFile(cipherFile, encryptData(race[p].data, FALSE).out,
                        FALSE, -1).file
        /\ Step(p, Proc("done", race[p].keyDatExists, race[p].keyTxtExists,
                        race[p].data))
        /\ UNCHANGED plainTextFile

InitRace ==
    /\ impl \in Impls
    /\ wordsList = (IF impl = "New" THEN testWordsList ELSE <<>>)
    /\ cipherFile = NoFile
    /\ plainTextFile = NoFile
    /\ buffers = <<>>
    /\ secureKey = 0
    /\ crashed = FALSE
    /\ last = Other("none")
    /\ hist = NoHist
    /\ held = NoHeld
    /\ origin = "empty"
    /\ race = [p \in Procs |-> Proc("start", FALSE, FALSE, <<>>)]

NextRace ==
    \/ RaceStatCipher
    \/ RaceStatPlain
    \/ RaceWritePlain
    \/ RaceReadBack
    \/ RaceReadPlain
    \/ RaceWriteCipher

SpecRace == InitRace /\ [][NextRace]_vars

-----------------------------------------------------------------------------
(* The vocabulary of the claims *)

MaterializeOps == {"AccessKey", "AccessKeyBytes", "New", "Get"}

\* the last call was a materialize call that got past New's check of the
\* word list ("Ensure that New() has been called before using this function")
Materialized == last.op \in MaterializeOps /\ last.path # "config"

\* no fault was injected into the last call
FaultFree == last.stat = {} /\ last.fault = "none"

Exists(file) == file # NoFile

PreBoth == Exists(last.pre.cipher) /\ Exists(last.pre.plain)
PreCipherOnly == Exists(last.pre.cipher) /\ ~Exists(last.pre.plain)
PrePlainOnly == ~Exists(last.pre.cipher) /\ Exists(last.pre.plain)
PreEmpty == ~Exists(last.pre.cipher) /\ ~Exists(last.pre.plain)

FilesUnchanged ==
    cipherFile = last.pre.cipher /\ plainTextFile = last.pre.plain

HandleUnchanged == secureKey = last.pre.key /\ buffers = last.pre.buffers

\* the error taxonomy of the specification, by the texts the code returns
ConflictingKeyFiles(r) ==
    /\ ~r.ok
    /\ r.msg \in
        {"both key.dat and key.txt exist. Copy key.txt to a safe place and remove it from this server",
         "copy %s to a safe place and remove it from this server",
         "can't have both plaintext and cipher keys on your server, copy %s to a safe place and remove it from this server"}

PlatformCryptoError(r) ==
    /\ ~r.ok
    /\ r.cause \in {"failed to decrypt data: %v", "failed to encrypt data: %v"}

InvalidRepresentation(r) ==
    /\ ~r.ok
    /\ r.msg \in
        {"%s must contain exactly 24 valid words from the word list",
         "%s must contain a key that is 32 characters"}

KeyNotLoaded(r) == ~r.ok /\ r.msg = "key not loaded into memory"

\* a result that tells the caller the plaintext file is still on the server
PlaintextStillPresent(r) ==
    r.msg \in
        {"key.txt successfully encrypted to key.dat. Remove key.txt from this server and store it safely",
         "can't have both plaintext and cipher keys on your server, copy %s to a safe place and remove it from this server"}

\* decode: the secret a representation stands for (the word sequence of the
\* word-list version, the characters of the others)
Decode(text) == IF impl = "New" THEN Fields(text) ELSE text

\* a representation with the fixed token count and tokens of the alphabet
ValidRepresentation(text) ==
    IF impl = "New"
    THEN Len(Fields(text)) = WordCount /\ validateWords(Fields(text), wordsList)
    ELSE /\ Len(text) = KeyLength
         /\ Range(text) \subseteq
               Range(IF impl = "Get" THEN characters ELSE charPool)

\* the key held by the handle, <<>> when none is loaded
LoadedKey == IF secureKey = 0 THEN <<>> ELSE buffers[secureKey].bytes

-----------------------------------------------------------------------------
(* Claims *)

\* C1: a materialize call that starts with both files present (and whose
\* existence checks are answered) fails with ConflictingKeyFiles, reads
\* neither file, and leaves both files and the key handle as they were.
C1_BothPresentRefused ==
    (Materialized /\ PreBoth /\ last.stat = {}) =>
        /\ ~last.panic
        /\ ConflictingKeyFiles(last.ret)
        /\ last.ret.val = <<>>
        /\ last.reads = {}
        /\ FilesUnchanged
        /\ HandleUnchanged

\* a materialize call of each kind of version met both files
C1_Witness ==
    /\ Materialized /\ PreBoth /\ last.stat = {}
    /\ last.path = "both"
    /\ impl = "New"
    /\ last.pre.key # 0

\* C2: in the versions that keep a handle, a materialize call that starts
\* with only the cipher file, holding a blob the platform accepts, succeeds;
\* afterwards the handle holds exactly the unprotected content of the cipher
\* file, nothing is returned or logged, and no file has changed.
C2_CipherOnlyLoads ==
    (/\ impl \in HandleImpls
     /\ Materialized /\ PreCipherOnly /\ FaultFree
     /\ ValidBlob(last.pre.cipher)) =>
        /\ ~last.panic
        /\ last.ret.ok
        /\ secureKey # 0
        /\ buffers[secureKey].state = "frozen"
        /\ LoadedKey = CryptUnprotectData(last.pre.cipher).out
        /\ last.ret.val = <<>>
        /\ last.ret.leak = <<>>
        /\ last.logged = <<>>
        /\ FilesUnchanged

\* a cipher-only call loaded a non-empty key
C2_Witness ==
    /\ impl \in HandleImpls
    /\ Materialized /\ PreCipherOnly /\ FaultFree
    /\ ValidBlob(last.pre.cipher)
    /\ last.path = "cipher"
    /\ LoadedKey # <<>>

\* C3: a materialize call that starts with only the cipher file, holding
\* content the platform cipher rejects (corrupt, truncated or foreign),
\* fails with PlatformCryptoError and changes neither the files nor the
\* handle.
C3_RejectedCipherFails ==
    (/\ Materialized /\ PreCipherOnly /\ FaultFree
     /\ ~ValidBlob(last.pre.cipher)) =>
        /\ ~last.panic
        /\ PlatformCryptoError(last.ret)
        /\ FilesUnchanged
        /\ HandleUnchanged

\* C4: a materialize call that starts with neither file and meets no fault
\* writes both files and returns a non-empty representation; the plaintext
\* file holds the generated representation, the cipher file unprotects to
\* the same secret, and the returned value decodes to the same secret.
C4_FirstRunReturnsKey ==
    (Materialized /\ PreEmpty /\ FaultFree) =>
        /\ ~last.panic
        /\ last.path = "generate"
        /\ last.gen # <<>>
        /\ last.ret.val # <<>>
        /\ Decode(last.ret.val) = Decode(last.gen)
        /\ plainTextFile = last.gen
        /\ ValidBlob(cipherFile)
        /\ Decode(CryptUnprotectData(cipherFile).out) = Decode(last.gen)

\* C5: after a first run on an empty disk and the removal of the plaintext
\* file, the next materialize call (handle-keeping versions) succeeds and
\* returns no plaintext, and the retrieve that follows succeeds with
\* non-empty bytes equal to the key the first run generated.
C5_ReloadAndRetrieve ==
    /\ (impl \in HandleImpls
        /\ hist.ops = <<"RemovePlainText", "Materialize">>) =>
            /\ last.ret.ok
            /\ last.ret.val = <<>>
            /\ LoadedKey = hist.key
    /\ hist.ops = <<"RemovePlainText", "Materialize", "GetKey">> =>
            /\ ~last.panic
            /\ last.ret.ok
            /\ last.ret.val # <<>>
            /\ last.ret.val = hist.key

\* the whole scenario ran: generate, remove, materialize, retrieve
C5_Witness ==
    /\ hist.ops = <<"RemovePlainText", "Materialize", "GetKey">>
    /\ hist.key # <<>>
    /\ last.op = "GetKey"
    /\ impl = "New"

\* C6 as stated: after a first run on an empty disk, a materialize call
\* from a fresh process against the same, untouched files succeeds, loads
\* the generated key and returns no plaintext.
C6_ReloadUntouchedFiles ==
    (impl \in HandleImpls /\ hist.ops = <<"Restart", "Materialize">>) =>
        /\ last.ret.ok
        /\ LoadedKey = hist.key
        /\ last.ret.val = <<>>

\* C6 amended: after a first run on an empty disk, a materialize call from
\* a fresh process (handle-keeping versions) succeeds, loads the generated
\* key and returns no plaintext once the plaintext file has been removed
\* and nothing else has changed; against the untouched files, both still
\* present, it fails with ConflictingKeyFiles and loads nothing.
C6_ReloadAfterRemoval ==
    /\ (/\ impl \in HandleImpls
        /\ hist.ops \in {<<"Restart", "RemovePlainText", "Materialize">>,
                         <<"RemovePlainText", "Restart", "Materialize">>}) =>
            /\ ~last.panic
            /\ last.ret.ok
            /\ secureKey # 0
            /\ LoadedKey = hist.key
            /\ last.ret.val = <<>>
            /\ last.pre.key = 0
    /\ (impl \in HandleImpls /\ hist.ops = <<"Restart", "Materialize">>) =>
            /\ ConflictingKeyFiles(last.ret)
            /\ secureKey = 0
            /\ FilesUnchanged

\* a fresh process reloaded the key of a first run after the removal
C6_Witness ==
    /\ impl \in HandleImpls
    /\ hist.ops = <<"Restart", "RemovePlainText", "Materialize">>
    /\ last.path = "cipher"
    /\ hist.key # <<>>
    /\ LoadedKey = hist.key

\* C7: a materialize call that starts with only the plaintext file, holding
\* a valid representation, and meets no fault writes a cipher file that
\* unprotects to the secret of the plaintext file, leaves the plaintext
\* file as it was, loads nothing, and returns a PlaintextStillPresent
\* condition that differs from plain success.
C7_PlainOnlyWarns ==
    (/\ Materialized /\ PrePlainOnly /\ FaultFree
     /\ ValidRepresentation(last.pre.plain)) =>
        /\ ~last.panic
        /\ ValidBlob(cipherFile)
        /\ Decode(CryptUnprotectData(cipherFile).out) = Decode(last.pre.plain)
        /\ plainTextFile = last.pre.plain
        /\ HandleUnchanged
        /\ PlaintextStillPresent(last.ret)

\* C8: a materialize call that starts with only the plaintext file, holding
\* content that is not a valid representation, fails with
\* InvalidRepresentation before the platform cipher is called and creates
\* no cipher file.
C8_InvalidPlainRejected ==
    (/\ Materialized /\ PrePlainOnly /\ last.stat = {} /\ last.fault # "read"
     /\ ~ValidRepresentation(last.pre.plain)) =>
        /\ ~last.panic
        /\ InvalidRepresentation(last.ret)
        /\ last.fault = "none"
        /\ cipherFile = NoFile

\* C9: a materialize call returns key material to its caller only on the
\* first-run path: the both-present, cipher-only and plaintext-only paths
\* return none, and a successful first run returns the generated
\* representation.
C9_OnlyFirstRunReturnsKey ==
    Materialized =>
        /\ last.path \in {"both", "cipher", "plain"} => last.ret.val = <<>>
        /\ (last.path = "generate" /\ FaultFree /\ ~last.panic) =>
              /\ last.ret.val # <<>>
              /\ Decode(last.ret.val) = Decode(last.gen)

\* C10: retrieve with no key loaded returns the KeyNotLoaded error and no
\* bytes, calls no Melt, and does not end the process.
C10_RetrieveNotLoaded ==
    (last.op = "GetKey" /\ last.pre.key = 0) =>
        /\ ~last.panic
        /\ KeyNotLoaded(last.ret)
        /\ last.ret.val = <<>>
        /\ ~last.melted
        /\ buffers = last.pre.buffers

\* calls of the package: materialize, retrieve, destroy
PackageOps == MaterializeOps \cup {"GetKey", "DestroyKey"}

\* C11: DestroyKey leaves no key loaded and the buffer wiped and destroyed;
\* called with nothing loaded it changes nothing and does not fail; a
\* retrieve that follows a destroy (no materialize in between) returns the
\* KeyNotLoaded error.
C11_DestroyThenRetrieve ==
    /\ last.op = "DestroyKey" =>
          /\ secureKey = 0
          /\ ~crashed
          /\ last.pre.key # 0 =>
                buffers[last.pre.key] = [bytes |-> <<>>, state |-> "destroyed"]
          /\ last.pre.key = 0 => buffers = last.pre.buffers
    /\ (/\ last.op = "GetKey"
        /\ last.pre.key = 0
        /\ \E k \in 1..Len(last.pre.buffers) :
              last.pre.buffers[k].state = "destroyed") =>
          /\ ~last.panic
          /\ KeyNotLoaded(last.ret)

\* C12: what a successful retrieve hands back is a copy owned by the
\* caller: it is no view of the guarded buffer, the caller reads the
\* returned content from it for as long as it has not written to it itself
\* (also after a later destroy), and a write to it neither ends the process
\* nor changes a buffer.
C12_RetrievedBytesOwned ==
    /\ held.live => held.ref = 0
    /\ (held.live /\ (held.ref # 0 \/ held.copy = held.orig)) =>
          HeldBytes = held.orig
    /\ last.op = "CallerWrite" => ~crashed /\ buffers = last.pre.buffers

\* C13: first-run generation writes the plaintext file first; when protect
\* or the write of the cipher file then fails, the call fails and leaves
\* only the plaintext file, holding the generated key, and the materialize
\* call that follows takes the plaintext-only path and encrypts that key.
C13_FailedGenerationRecoverable ==
    /\ (last.op \in MaterializeOps /\ last.path = "generate"
        /\ last.fault = "write_plain") => cipherFile = last.pre.cipher
    /\ (last.op \in MaterializeOps /\ last.path = "generate"
        /\ last.fault \in {"protect", "write_cipher"}) =>
          /\ ~last.ret.ok
          /\ last.ret.val = <<>>
          /\ plainTextFile = last.gen
          /\ cipherFile = NoFile
    /\ (Materialized /\ last.prev.fault # "" /\ FaultFree) =>
          /\ last.path = "plain"
          /\ plainTextFile = last.prev.gen
          /\ ValidBlob(cipherFile)
          /\ Decode(CryptUnprotectData(cipherFile).out) = Decode(last.prev.gen)

\* C14: after a materialize call in which a file write failed, each file
\* is absent, as it was before the call, or holds the complete content the
\* call meant to write.
C14_WritesAllOrNothing ==
    (last.op \in MaterializeOps
     /\ last.fault \in {"write_plain", "write_cipher"}) =>
        /\ plainTextFile \in {NoFile, last.pre.plain, last.gen}
        /\ \/ cipherFile \in {NoFile, last.pre.cipher}
           \/ ValidBlob(cipherFile)

\* C15: no call of the package writes key material to the log or puts the
\* content of a key file into the message it returns.
C15_NoSecretInLogsOrErrors ==
    last.op \in PackageOps =>
        /\ last.logged = <<>>
        /\ last.ret.leak = <<>>

\* C16: a materialize call in which the existence check of a key file
\* fails with an error other than not-exist returns an I/O error, takes
\* neither the generation nor another writing path, and leaves the files
\* as they were.
C16_StatErrorPropagated ==
    (Materialized /\ last.stat # {}) =>
        /\ ~last.panic
        /\ ~last.ret.ok
        /\ last.ret.cause = "io"
        /\ last.gen = <<>>
        /\ FilesUnchanged

\* C17: a call of the package that starts with both files present leaves
\* both files as they were, and a materialize call among them fails and
\* loads nothing; a plaintext-only migration that ran to its end leaves
\* both files present.
C17_BothAbsorbing ==
    /\ (last.op \in PackageOps /\ PreBoth) =>
          /\ FilesUnchanged
          /\ last.op \in MaterializeOps =>
                /\ ~last.ret.ok
                /\ HandleUnchanged
    /\ (Materialized /\ PrePlainOnly /\ last.path = "plain" /\ FaultFree
        /\ ~last.panic /\ cipherFile # last.pre.cipher) =>
          /\ Exists(cipherFile)
          /\ plainTextFile = last.pre.plain

\* C18: between calls no buffer is melted, and a loaded handle is frozen;
\* in particular after every return of GetKey.
C18_FrozenOutsideRetrieve ==
    /\ \A k \in 1..Len(buffers) : buffers[k].state # "melted"
    /\ secureKey # 0 => buffers[secureKey].state = "frozen"

\* GetKey melted a loaded buffer, returned the key, and the buffer is frozen
C18_Witness ==
    /\ last.op = "GetKey"
    /\ last.melted
    /\ last.ret.ok
    /\ last.ret.val # <<>>
    /\ secureKey # 0
    /\ buffers[secureKey].state = "frozen"

\* C19: a materialize call that meets a key file of zero length (the cipher
\* file on the cipher-only path, the plaintext file on the plaintext-only
\* path) returns PlatformCryptoError or InvalidRepresentation, does not end
\* the process, and leaves the files as they were.
C19_EmptyFileIsAnError ==
    (/\ Materialized /\ FaultFree
     /\ \/ PreCipherOnly /\ last.pre.cipher = <<>>
        \/ PrePlainOnly /\ last.pre.plain = <<>>) =>
        /\ ~last.panic
        /\ PlatformCryptoError(last.ret) \/ InvalidRepresentation(last.ret)
        /\ FilesUnchanged

\* secureRandomInt(max) is in 0..max-1 for every max in 1..MaxMax and
\* every value of the random byte
secureRandomIntInRange ==
    \A max \in 1..MaxMax : \A byte \in 0..(ByteRange - 1) :
        /\ secureRandomInt(max, byte) >= 0
        /\ secureRandomInt(max, byte) < max

\* C20: every representation a generation produced has the fixed token
\* count (32 characters, 24 words) with every token from the alphabet or
\* the word list, and secureRandomInt stays in range, so that every index
\* into the character pool is one of its positions.
C20_GeneratedWellFormed ==
    (last.op \in MaterializeOps /\ last.path = "generate"
     /\ last.gen # <<>>) =>
          /\ secureRandomIntInRange
          /\ Len(charPool) <= MaxMax
          /\ \A byte \in 0..(ByteRange - 1) :
                secureRandomInt(Len(charPool), byte) + 1 \in DOMAIN charPool
          /\ ValidRepresentation(last.gen)
          /\ impl = "New" => Len(Fields(last.gen)) = WordCount
          /\ impl # "New" => Len(last.gen) = KeyLength

\* a first run generated a key from a random stream that is not constant
C20_Witness ==
    /\ last.op \in MaterializeOps
    /\ last.path = "generate"
    /\ last.gen # <<>>
    /\ impl = "AccessKey"
    /\ last.gen[1] # last.gen[2]
    /\ plainTextFile = last.gen

NotSpace(c) == c \notin Space

\* the plaintext file a first run writes for the tokens of text: the words
\* joined by single spaces (part_003), the characters with no white space
\* around them (the others)
Canonical(text) ==
    IF impl = "New" THEN Join(Fields(text), <<" ">>)
    ELSE SelectSeq(text, NotSpace)

\* C21: a plaintext-only materialize call that finds a file whose tokens
\* form a valid representation, in whatever white-space layout, accepts it
\* and writes a cipher file that unprotects to what the first-run cipher
\* of those tokens unprotects to.
C21_LayoutIgnored ==
    (/\ Materialized /\ PrePlainOnly /\ FaultFree
     /\ ValidRepresentation(Canonical(last.pre.plain))) =>
        /\ ~last.panic
        /\ ~InvalidRepresentation(last.ret)
        /\ ValidBlob(cipherFile)
        /\ CryptUnprotectData(cipherFile).out = Canonical(last.pre.plain)

\* C22: every buffer of the process that has not been destroyed is the one
\* secureKey refers to.
C22_NoOrphanBuffer ==
    \A k \in 1..Len(buffers) :
        buffers[k].state # "destroyed" => k = secureKey

\* C23: a materialize call leaves every file that existed when it began
\* in place with the content it had.
C23_ExistingFilesKept ==
    last.op \in MaterializeOps =>
        /\ Exists(last.pre.cipher) => cipherFile = last.pre.cipher
        /\ Exists(last.pre.plain) => plainTextFile = last.pre.plain

\* C24: when both processes of a concurrent first run have returned, both
\* files exist and the cipher file unprotects to exactly the content of
\* the plaintext file.
C24_RaceConsistent ==
    (\A p \in Procs : race[p].pc = "done") =>
        /\ Exists(plainTextFile)
        /\ Exists(cipherFile)
        /\ ValidBlob(cipherFile)
        /\ CryptUnprotectData(cipherFile).out = plainTextFile

\* C25: as long as the disk was empty at the start and no file has been
\* removed from outside, no key is loaded and no retrieve succeeds, the
\* disk is never cipher-only, and a materialize call removes no file and
\* leaves the handle alone on the generation and plaintext-only paths.
C25_NoRetrieveWithoutRemoval ==
    origin = "empty" =>
        /\ secureKey = 0
        /\ ~(last.op = "GetKey" /\ last.ret.ok)
        /\ ~(Exists(cipherFile) /\ ~Exists(plainTextFile))
        /\ last.op \in MaterializeOps =>
              /\ Exists(last.pre.cipher) => Exists(cipherFile)
              /\ Exists(last.pre.plain) => Exists(plainTextFile)
              /\ last.path \in {"generate", "plain"} => HandleUnchanged

=============================================================================
